---- MODULE Spec2Model ----
(***************************************************************************)
(* Model of lucet-wasi-sdk (src/lucet-wasi-sdk/src/lib.rs): the typed      *)
(* Compile / Link / Lucetc build jobs, the per-platform translation of     *)
(* LinkOpt intents into linker flags, and the Lucetc::build pipeline over  *)
(* its temporary directory.                                                *)
(*                                                                         *)
(* Paths, flags and captured streams are strings; format!() is string      *)
(* concatenation.  The filesystem is the set `fs` of paths that exist.     *)
(* External collaborators are modelled by their outcomes: the clang        *)
(* subprocess by its Output (exit status and captured streams), the code   *)
(* generator by Ok or an opaque cause, the removal of the temporary        *)
(* directory by how far it got.  A spawned clang that exits with status 0  *)
(* has written its output file; Command::output() is taken to succeed      *)
(* whenever the clang path exists (the code panics otherwise).             *)
(***************************************************************************)
EXTENDS Integers, Sequences, FiniteSets, TLC

VARIABLES
    macos,          \* cfg(target_os = "macos"): fixed at build time
    env,            \* the environment variables WASI_SDK, WASI_SYSROOT, CLANG
    fs,             \* the set of paths that exist on disk
    kind,           \* which job has been constructed: "Compile", "Link", "Lucetc"
    input,          \* Compile.input (as a one-element sequence) / Link.input
    cflags,         \* Compile.cflags / Link.cflags
    ldflags,        \* Link.ldflags
    print_output,   \* Compile.print_output / Link.print_output
    tmpdir,         \* Lucetc.tmpdir: the path of the TempDir
    wasm_file,      \* Lucetc.wasm_file (also the input of Lucetc.lucetc)
    pc,             \* "new", "job", the position inside build, "done"
    calls,          \* log of the accumulator calls made on the job
    flags_out,      \* what the most recent LinkOpt::as_ldflags call returned
    cmds,           \* log of the clang subprocesses spawned, each its argv
    stdio,          \* what the driver wrote to its own stdout / stderr
    steps,          \* log of the steps Lucetc::build has taken
    result          \* what the terminal operation returned

vars == <<macos, env, fs, kind, input, cflags, ldflags, print_output, tmpdir,
          wasm_file, pc, calls, flags_out, cmds, stdio, steps, result>>

(***************************************************************************)
(* Bounds and input sets                                                   *)
(***************************************************************************)
MaxCalls == 2

None == "<none>"

EnvChoices ==
    { [WASI_SDK |-> None,   WASI_SYSROOT |-> None,       CLANG |-> None],
      [WASI_SDK |-> "/sdk", WASI_SYSROOT |-> None,       CLANG |-> None],
      [WASI_SDK |-> None,   WASI_SYSROOT |-> "/sysroot", CLANG |-> "/usr/bin/clang"] }

\* which of the source files exist when the job is run
SourceChoices == { {"a.c", "b.c"}, {"b.c"} }

CompileInputs == {"a.c", "does_not_exist.c"}

LinkInputs ==
    { <<"a.c">>, <<"a.c", "b.c">>, <<"does_not_exist.o">>,
      <<"a.c", "does_not_exist.o", "gone.o">> }

CflagChoices == {"-nostartfiles"}
IncludeChoices == {"inc"}
Symbols == {"f"}

OutObject == "a.o"
OutWasm == "ab.wasm"
OutShared == "ab.so"
TmpDirPath == "/tmp/.tmpLucet"

(***************************************************************************)
(* const WASI_TARGET and the toolchain locator                             *)
(***************************************************************************)
WASI_TARGET == "wasm32-unknown-wasi"

\* PathBuf::push / Path::join of a relative component
push(path, comp) == path \o "/" \o comp

wasi_sdk == IF env.WASI_SDK # None THEN env.WASI_SDK ELSE "/opt/wasi-sdk"

wasi_sysroot ==
    IF env.WASI_SYSROOT # None THEN env.WASI_SYSROOT
    ELSE push(push(wasi_sdk, "share"), "sysroot")

wasm_clang ==
    IF env.CLANG # None THEN env.CLANG
    ELSE push(push(wasi_sdk, "bin"), "clang")

(***************************************************************************)
(* CompileError                                                            *)
(***************************************************************************)
Ok == [kind |-> "Ok"]
FileNotFound(p) == [kind |-> "FileNotFound", path |-> p]
Execution(out, err) == [kind |-> "Execution", stdout |-> out, stderr |-> err]
LucetcErr(e) == [kind |-> "Lucetc", e |-> e]
IOErr(e) == [kind |-> "IO", e |-> e]

\* The Output of a clang run: exit status and the captured byte streams.
\* "\\xFF" stands for a byte sequence that is not valid UTF-8.
ClangOutputs ==
    { [status |-> 0, stdout |-> "", stderr |-> ""],
      [status |-> 1, stdout |-> "\\xFF", stderr |-> "wasm-ld: error: unknown argument"] }

from_utf8_lossy(bytes) == IF bytes = "\\xFF" THEN "\\uFFFD" ELSE bytes

\* faulty variant: the two captured streams exchanged
CompileError_check_swapped(output, print) ==
    IF output.status = 0 THEN Ok
    ELSE Execution(from_utf8_lossy(output.stderr), from_utf8_lossy(output.stdout))

CompileError_check(output, print) ==
    IF output.status = 0 THEN Ok
    ELSE Execution(from_utf8_lossy(output.stdout), from_utf8_lossy(output.stderr))

\* what CompileError::check writes through to the driver's streams
check_prints(output, print) ==
    IF print THEN <<output.stdout, output.stderr>> ELSE <<>>

(***************************************************************************)
(* LinkOpt and its translation                                             *)
(***************************************************************************)
Opt(tag, sym) == [tag |-> tag, sym |-> sym]

LinkOpt ==
    { Opt("AllowUndefined", s) : s \in Symbols } \cup
    { Opt("Export", s) : s \in Symbols } \cup
    { Opt(t, "") : t \in { "AllowUndefinedAll", "DefaultOpts", "ExportAll",
                           "NoDefaultEntryPoint", "Shared", "StripDebug",
                           "StripUnused" } }

as_ldflags_macos(opt) ==
    CASE opt.tag = "AllowUndefined"      -> <<>>
      [] opt.tag = "AllowUndefinedAll"   -> <<"-undefined,dynamic_lookup">>
      [] opt.tag = "DefaultOpts"         -> <<>>
      [] opt.tag = "Export"              -> <<"-exported_symbol," \o opt.sym>>
      [] opt.tag = "ExportAll"           -> <<"-export_dynamic">>
      [] opt.tag = "NoDefaultEntryPoint" -> <<>>
      [] opt.tag = "Shared"              -> <<"-dylib">>
      [] opt.tag = "StripDebug"          -> <<"-S">>
      [] opt.tag = "StripUnused"         -> <<"-dead_strip">>

as_ldflags_elf(opt) ==
    CASE opt.tag = "AllowUndefined"      -> <<"-U,_" \o opt.sym>>
      [] opt.tag = "AllowUndefinedAll"   -> <<"--allow-undefined">>
      [] opt.tag = "DefaultOpts"         -> <<"--no-threads">>
      [] opt.tag = "Export"              -> <<"--export=" \o opt.sym>>
      [] opt.tag = "ExportAll"           -> <<"--export-all">>
      [] opt.tag = "NoDefaultEntryPoint" -> <<"--no-entry">>
      [] opt.tag = "Shared"              -> <<"--shared">>
      [] opt.tag = "StripDebug"          -> <<"-S">>
      [] opt.tag = "StripUnused"         -> <<"--strip-discarded">>

\* faulty variant: the ELF table on every host
as_ldflags_elf_only(opt) == as_ldflags_elf(opt)

as_ldflags(opt) == IF macos THEN as_ldflags_macos(opt) ELSE as_ldflags_elf(opt)

(***************************************************************************)
(* Initial state: nothing constructed yet                                  *)
(***************************************************************************)
Init ==
    /\ macos \in BOOLEAN
    /\ env \in EnvChoices
    /\ fs \in { S \cup C : S \in SourceChoices, C \in { {}, {wasm_clang} } }
    /\ kind = None
    /\ input = <<>>
    /\ cflags = <<>>
    /\ ldflags = <<>>
    /\ print_output = FALSE
    /\ tmpdir = None
    /\ wasm_file = None
    /\ pc = "new"
    /\ calls = <<>>
    /\ flags_out = <<>>
    /\ cmds = <<>>
    /\ stdio = <<>>
    /\ steps = <<>>
    /\ result = None

job_vars == <<kind, input, cflags, ldflags, print_output, tmpdir, wasm_file>>
run_vars == <<cmds, stdio, steps, result>>

(***************************************************************************)
(* Constructors                                                            *)
(***************************************************************************)
\* LinkOpts::link_opt: self.as_link().ldflags.extend(link_opt.as_ldflags())
extend_ldflags(lds, opt) == lds \o as_ldflags(opt)

Compile_new(in) ==
    /\ pc = "new"
    /\ kind' = "Compile"
    /\ input' = <<in>>
    /\ cflags' = <<>>
    /\ print_output' = FALSE
    /\ pc' = "job"
    /\ UNCHANGED <<macos, env, fs, ldflags, tmpdir, wasm_file, calls, flags_out>>
    /\ UNCHANGED run_vars

\* faulty variant: the constructor leaves DefaultOpts out
Link_new_ldflags_empty == <<>>

\* the Link value Link::new returns: empty flag lists, then
\* .with_link_opt(LinkOpt::DefaultOpts)
Link_new_ldflags == extend_ldflags(<<>>, Opt("DefaultOpts", ""))

Link_new(ins) ==
    /\ pc = "new"
    /\ kind' = "Link"
    /\ input' = ins
    /\ cflags' = <<>>
    /\ ldflags' = Link_new_ldflags
    /\ flags_out' = as_ldflags(Opt("DefaultOpts", ""))
    /\ print_output' = FALSE
    /\ pc' = "job"
    /\ UNCHANGED <<macos, env, fs, tmpdir, wasm_file, calls>>
    /\ UNCHANGED run_vars

\* Lucetc::new: Link::new(input), TempDir::new(), tmpdir.path().join("out.wasm")
Lucetc_new(ins) ==
    /\ pc = "new"
    /\ kind' = "Lucetc"
    /\ input' = ins
    /\ cflags' = <<>>
    /\ ldflags' = Link_new_ldflags
    /\ flags_out' = as_ldflags(Opt("DefaultOpts", ""))
    /\ print_output' = FALSE
    /\ tmpdir' = TmpDirPath
    /\ wasm_file' = push(TmpDirPath, "out.wasm")
    /\ fs' = fs \cup {TmpDirPath}
    /\ pc' = "job"
    /\ UNCHANGED <<macos, env, calls>>
    /\ UNCHANGED run_vars

(***************************************************************************)
(* Accumulators.  The with_* variants are the same calls on an owned self. *)
(***************************************************************************)
Call(op, arg) == [op |-> op, arg |-> arg]

CanCall == pc = "job" /\ Len(calls) < MaxCalls

\* what include() pushes
include_flag(inc) == "-I" \o inc

\* impl CompileOpts for Compile
Compile_cflag(cflag) ==
    /\ CanCall /\ kind = "Compile"
    /\ cflags' = Append(cflags, cflag)
    /\ calls' = Append(calls, Call("cflag", cflag))
    /\ UNCHANGED <<macos, env, fs, kind, input, ldflags, print_output, tmpdir,
                   wasm_file, pc, flags_out>>
    /\ UNCHANGED run_vars

Compile_include(inc) ==
    /\ CanCall /\ kind = "Compile"
    /\ cflags' = Append(cflags, include_flag(inc))
    /\ calls' = Append(calls, Call("include", inc))
    /\ UNCHANGED <<macos, env, fs, kind, input, ldflags, print_output, tmpdir,
                   wasm_file, pc, flags_out>>
    /\ UNCHANGED run_vars

\* impl<T: AsLink> CompileOpts for T  (T is Link or Lucetc)
Link_cflag(cflag) ==
    /\ CanCall /\ kind \in {"Link", "Lucetc"}
    /\ cflags' = Append(cflags, cflag)
    /\ calls' = Append(calls, Call("cflag", cflag))
    /\ UNCHANGED <<macos, env, fs, kind, input, ldflags, print_output, tmpdir,
                   wasm_file, pc, flags_out>>
    /\ UNCHANGED run_vars

Link_include(inc) ==
    /\ CanCall /\ kind \in {"Link", "Lucetc"}
    /\ cflags' = Append(cflags, include_flag(inc))
    /\ calls' = Append(calls, Call("include", inc))
    /\ UNCHANGED <<macos, env, fs, kind, input, ldflags, print_output, tmpdir,
                   wasm_file, pc, flags_out>>
    /\ UNCHANGED run_vars

\* impl<T: AsLink> LinkOpts for T
link_opt(opt) ==
    /\ CanCall /\ kind \in {"Link", "Lucetc"}
    /\ ldflags' = extend_ldflags(ldflags, opt)
    /\ flags_out' = as_ldflags(opt)
    /\ calls' = Append(calls, Call("link_opt", opt))
    /\ UNCHANGED <<macos, env, fs, kind, input, cflags, print_output, tmpdir,
                   wasm_file, pc>>
    /\ UNCHANGED run_vars

\* export(s) is self.link_opt(LinkOpt::Export(s))
export(sym) ==
    /\ CanCall /\ kind \in {"Link", "Lucetc"}
    /\ ldflags' = extend_ldflags(ldflags, Opt("Export", sym))
    /\ flags_out' = as_ldflags(Opt("Export", sym))
    /\ calls' = Append(calls, Call("export", sym))
    /\ UNCHANGED <<macos, env, fs, kind, input, cflags, print_output, tmpdir,
                   wasm_file, pc>>
    /\ UNCHANGED run_vars

\* Compile::print_output, Link::print_output, Lucetc::print_output
set_print_output(print) ==
    /\ CanCall
    /\ print_output' = print
    /\ calls' = Append(calls, Call("print_output", print))
    /\ UNCHANGED <<macos, env, fs, kind, input, cflags, ldflags, tmpdir,
                   wasm_file, pc, flags_out>>
    /\ UNCHANGED run_vars

(***************************************************************************)
(* Compile::compile                                                        *)
(***************************************************************************)
to_string_lossy(path) == from_utf8_lossy(path)

\* faulty variant: the cflags are passed before the input and output
compile_argv_cflags_first(in, output, cfs) ==
    << "--target=" \o WASI_TARGET, "--sysroot=" \o wasi_sysroot >> \o cfs
    \o << "-c", in, "-o", output >>

compile_argv(in, output, cfs) ==
    << "--target=" \o WASI_TARGET, "--sysroot=" \o wasi_sysroot, "-c", in,
       "-o", output >> \o cfs

\* faulty variant: the input is not checked before clang is spawned
compile_run_unchecked(output, run) ==
    IF wasm_clang \notin fs
    THEN [res |-> FileNotFound(to_string_lossy(wasm_clang)), spawned |-> FALSE,
          argv |-> <<>>]
    ELSE [res |-> CompileError_check(run, print_output), spawned |-> TRUE,
          argv |-> <<wasm_clang>> \o compile_argv(input[1], output, cflags)]

\* the outcome of compile(output) when a spawned clang would end as `run`
compile_run(output, run) ==
    IF wasm_clang \notin fs
    THEN [res |-> FileNotFound(to_string_lossy(wasm_clang)), spawned |-> FALSE,
          argv |-> <<>>]
    ELSE IF input[1] \notin fs
    THEN [res |-> FileNotFound(to_string_lossy(input[1])), spawned |-> FALSE,
          argv |-> <<>>]
    ELSE [res |-> CompileError_check(run, print_output), spawned |-> TRUE,
          argv |-> <<wasm_clang>> \o compile_argv(input[1], output, cflags)]

\* the effects of one clang invocation with outcome r on the process and disk
Spawn(r, output, run) ==
    /\ cmds' = IF r.spawned THEN Append(cmds, [argv |-> r.argv, out |-> run])
               ELSE cmds
    /\ stdio' = IF r.spawned THEN stdio \o check_prints(run, print_output) ELSE stdio
    /\ fs' = IF r.spawned /\ run.status = 0 THEN fs \cup {output} ELSE fs

compile(output) ==
    /\ pc = "job" /\ kind = "Compile"
    /\ \E run \in ClangOutputs :
         LET r == compile_run(output, run) IN
         /\ Spawn(r, output, run)
         /\ result' = r.res
    /\ pc' = "done"
    /\ UNCHANGED <<macos, env, calls, flags_out, steps>>
    /\ UNCHANGED job_vars

(***************************************************************************)
(* Link::link                                                              *)
(***************************************************************************)
\* faulty variant: the loop goes on past a missing input and reports the last one
link_inputs_last_missing(ins, args) ==
    LET gone == { i \in 1..Len(ins) : ins[i] \notin fs } IN
    IF gone = {} THEN [missing |-> None, args |-> args \o ins]
    ELSE [missing |-> ins[CHOOSE i \in gone : \A j \in gone : j <= i],
          args |-> args]

\* the loop over self.input: stops at the first input that does not exist
RECURSIVE link_inputs(_, _)
link_inputs(ins, args) ==
    IF ins = <<>> THEN [missing |-> None, args |-> args]
    ELSE IF Head(ins) \notin fs THEN [missing |-> Head(ins), args |-> args]
    ELSE link_inputs(Tail(ins), Append(args, Head(ins)))

\* format!("-Wl,{}", ldflag)
wl(ldflag) == "-Wl," \o ldflag

\* faulty variant: the wrapped ldflags are passed before the cflags
link_argv_ldflags_first(args, output, cfs, lds) ==
    args \o <<"-o", output>> \o [i \in 1..Len(lds) |-> wl(lds[i])] \o cfs

link_argv(args, output, cfs, lds) ==
    args \o <<"-o", output>> \o cfs \o [i \in 1..Len(lds) |-> wl(lds[i])]

link_run(output, run) ==
    IF wasm_clang \notin fs
    THEN [res |-> FileNotFound(to_string_lossy(wasm_clang)), spawned |-> FALSE,
          argv |-> <<>>]
    ELSE LET scan == link_inputs(input, <<>>) IN
         IF scan.missing # None
         THEN [res |-> FileNotFound(to_string_lossy(scan.missing)),
               spawned |-> FALSE, argv |-> <<>>]
         ELSE [res |-> CompileError_check(run, print_output), spawned |-> TRUE,
               argv |-> <<wasm_clang>> \o link_argv(scan.args, output, cflags, ldflags)]

link(output) ==
    /\ pc = "job" /\ kind = "Link"
    /\ \E run \in ClangOutputs :
         LET r == link_run(output, run) IN
         /\ Spawn(r, output, run)
         /\ result' = r.res
    /\ pc' = "done"
    /\ UNCHANGED <<macos, env, calls, flags_out, steps>>
    /\ UNCHANGED job_vars

(***************************************************************************)
(* Lucetc::build.  `self` is consumed: on every return path that has not   *)
(* called tmpdir.close(), the TempDir is dropped, and its Drop removes the *)
(* directory tree ignoring any error.                                      *)
(***************************************************************************)
\* how a removal of the directory tree can end
RemoveOutcomes == {"removed", "partial", "failed"}

\* std::fs::remove_dir_all(tmpdir): the disk afterwards
remove_dir_all(disk, rm) ==
    CASE rm = "removed" -> disk \ {tmpdir, wasm_file}
      [] rm = "partial" -> disk \ {wasm_file}
      [] rm = "failed"  -> disk

\* faulty variant: cleanup on the success path alone, the early returns leak the directory
drop_self_noop(disk, rm) == disk

\* TempDir's Drop, run when build returns early: let _ = remove_dir_all(path)
drop_self(disk, rm) == remove_dir_all(disk, rm)

\* faulty variant: the step's Result is not looked at
is_ok_ignored(res) == TRUE

\* the `?` operator: whether the step's Result lets build go on
is_ok(res) == res.kind = "Ok"

\* faulty variant: a failed removal on the way out replaces the step's error
early_return_cleanup_error(err, rm) ==
    IF rm = "removed" THEN err ELSE IOErr("remove_dir_all " \o rm)

\* what build returns when a step failed with err and the drop of self ended
\* as rm: the error of the step, the drop's own error being discarded
early_return(err, rm) == err

\* TempDir::close(): the io::Result of the removal, converted by
\* From<std::io::Error> for CompileError
close_result(rm) == IF rm = "removed" THEN Ok ELSE IOErr("remove_dir_all " \o rm)

\* the outcomes of lucetc.shared_object_file(output): Ok or the cause
CodegenOutcomes == {"ok", "wasm validation error"}

Step(op, res) == [op |-> op, res |-> res]

\* step 1: self.link.link(&self.wasm_file)?
build_link ==
    /\ pc = "job" /\ kind = "Lucetc"
    /\ \E run \in ClangOutputs :
         LET r == link_run(wasm_file, run) IN
         /\ Spawn(r, wasm_file, run)
         /\ IF is_ok(r.res)
            THEN /\ steps' = Append(steps, Step("link", r.res))
                 /\ pc' = "build_codegen"
                 /\ UNCHANGED result
            ELSE /\ steps' = Append(steps, Step("link", r.res))
                 /\ pc' = "link_failed"
                 /\ result' = r.res
    /\ UNCHANGED <<macos, env, calls, flags_out>>
    /\ UNCHANGED job_vars

\* step 2: self.lucetc.shared_object_file(output).map_err(|e| Lucetc { e })?
build_codegen(output) ==
    /\ pc = "build_codegen"
    /\ \E gen \in CodegenOutcomes :
         LET res == IF gen = "ok" THEN Ok ELSE LucetcErr(gen) IN
         /\ steps' = Append(steps, Step("codegen", gen))
         /\ IF is_ok(res)
            THEN /\ fs' = fs \cup {output}
                 /\ pc' = "build_close"
                 /\ UNCHANGED result
            ELSE /\ pc' = "codegen_failed"
                 /\ result' = res
                 /\ UNCHANGED fs
    /\ UNCHANGED <<macos, env, calls, flags_out, cmds, stdio>>
    /\ UNCHANGED job_vars

\* step 3: Ok(self.tmpdir.close()?)
build_close ==
    /\ pc = "build_close"
    /\ \E rm \in RemoveOutcomes :
         /\ fs' = remove_dir_all(fs, rm)
         /\ result' = close_result(rm)
         /\ steps' = Append(steps, Step("close", rm))
    /\ pc' = "done"
    /\ UNCHANGED <<macos, env, calls, flags_out, cmds, stdio>>
    /\ UNCHANGED job_vars

\* the early return of step 1 or step 2: self goes out of scope
build_drop ==
    /\ pc \in {"link_failed", "codegen_failed"}
    /\ \E rm \in RemoveOutcomes :
         /\ fs' = drop_self(fs, rm)
         /\ result' = early_return(result, rm)
         /\ steps' = Append(steps, Step("drop", rm))
    /\ pc' = "done"
    /\ UNCHANGED <<macos, env, calls, flags_out, cmds, stdio>>
    /\ UNCHANGED job_vars

(***************************************************************************)
(* Specification                                                           *)
(***************************************************************************)
Next ==
    \/ \E in \in CompileInputs : Compile_new(in)
    \/ \E ins \in LinkInputs : Link_new(ins)
    \/ \E ins \in LinkInputs : Lucetc_new(ins)
    \/ \E c \in CflagChoices : Compile_cflag(c)
    \/ \E i \in IncludeChoices : Compile_include(i)
    \/ \E c \in CflagChoices : Link_cflag(c)
    \/ \E i \in IncludeChoices : Link_include(i)
    \/ \E o \in LinkOpt : link_opt(o)
    \/ \E s \in Symbols : export(s)
    \/ \E b \in BOOLEAN : set_print_output(b)
    \/ compile(OutObject)
    \/ link(OutWasm)
    \/ build_link
    \/ build_codegen(OutShared)
    \/ build_close
    \/ build_drop

Spec == Init /\ [][Next]_vars

(***************************************************************************)
(* Vocabulary of the properties                                            *)
(***************************************************************************)
IsLink == kind \in {"Link", "Lucetc"}

\* the terminal operation has returned to its caller
Returned == pc = "done"

\* the job's clang run, when it spawned one
Spawned == cmds # <<>>

\* the output path the job's link step was given
LinkOutput == IF kind = "Lucetc" THEN push(TmpDirPath, "out.wasm") ELSE OutWasm

\* the precondition paths of the job, in the order the spec lists them
Preconditions == <<wasm_clang>> \o input

MissingPaths == { Preconditions[i] : i \in { j \in 1..Len(Preconditions) :
                                             Preconditions[j] \notin fs } }

StartsWith(str, prefix) ==
    /\ Len(str) >= Len(prefix)
    /\ SubSeq(str, 1, Len(prefix)) = prefix

\* The table of spec section 4.3, one row per non-empty cell:
\* <<intent, flag text, whether the symbol is appended>>
MachOTable ==
    { <<"AllowUndefinedAll", "-undefined,dynamic_lookup", FALSE>>,
      <<"Export", "-exported_symbol,", TRUE>>,
      <<"ExportAll", "-export_dynamic", FALSE>>,
      <<"Shared", "-dylib", FALSE>>,
      <<"StripDebug", "-S", FALSE>>,
      <<"StripUnused", "-dead_strip", FALSE>> }

ELFTable ==
    { <<"AllowUndefined", "-U,_", TRUE>>,
      <<"AllowUndefinedAll", "--allow-undefined", FALSE>>,
      <<"DefaultOpts", "--no-threads", FALSE>>,
      <<"Export", "--export=", TRUE>>,
      <<"ExportAll", "--export-all", FALSE>>,
      <<"NoDefaultEntryPoint", "--no-entry", FALSE>>,
      <<"Shared", "--shared", FALSE>>,
      <<"StripDebug", "-S", FALSE>>,
      <<"StripUnused", "--strip-discarded", FALSE>> }

TableFlags(mac, tag, sym) ==
    LET rows == { r \in (IF mac THEN MachOTable ELSE ELFTable) : r[1] = tag } IN
    IF rows = {} THEN <<>>
    ELSE LET r == CHOOSE r \in rows : TRUE IN
         << IF r[3] THEN r[2] \o sym ELSE r[2] >>

\* the intent a logged call stands for, None when it is no intent
CallTag(c) == CASE c.op = "link_opt" -> c.arg.tag
                [] c.op = "export"   -> "Export"
                [] OTHER             -> None

CallSym(c) == CASE c.op = "link_opt" -> c.arg.sym
                [] c.op = "export"   -> c.arg
                [] OTHER             -> ""

\* the cflag a logged call appends, if any
RECURSIVE CflagsOfCalls(_)
CflagsOfCalls(cs) ==
    IF cs = <<>> THEN <<>>
    ELSE LET c == Head(cs) IN
         (CASE c.op = "cflag"   -> <<c.arg>>
            [] c.op = "include" -> <<"-I" \o c.arg>>
            [] OTHER            -> <<>>) \o CflagsOfCalls(Tail(cs))

\* the table's translation of the intents of the logged calls, in call order
RECURSIVE TableOfCalls(_)
TableOfCalls(cs) ==
    IF cs = <<>> THEN <<>>
    ELSE LET c == Head(cs) IN
         (IF CallTag(c) = None THEN <<>>
          ELSE TableFlags(macos, CallTag(c), CallSym(c))) \o TableOfCalls(Tail(cs))

\* the most recent intent translated for the job: the constructor's
\* DefaultOpts until a call adds one
RECURSIVE LastIntent(_)
LastIntent(cs) ==
    IF cs = <<>> THEN <<"DefaultOpts", "">>
    ELSE LET c == cs[Len(cs)] IN
         IF CallTag(c) # None THEN <<CallTag(c), CallSym(c)>>
         ELSE LastIntent(SubSeq(cs, 1, Len(cs) - 1))

StepOps == [i \in 1..Len(steps) |-> steps[i].op]

(***************************************************************************)
(* Lucetc::build and its temporary directory                               *)
(***************************************************************************)
LinkStepFailed == kind = "Lucetc" /\ Returned /\ steps[1].res.kind # "Ok"

TmpGone ==
    /\ TmpDirPath \notin fs
    /\ push(TmpDirPath, "out.wasm") \notin fs

\* C1 as stated: once build has returned, Ok or Err, the temporary directory
\* and the out.wasm inside it no longer exist, whichever step failed, the
\* cleanup step included.
C1_TmpGoneOnEveryReturn == (kind = "Lucetc" /\ Returned) => TmpGone

\* C1 amended: once build has returned, the removal of the temporary
\* directory has been attempted exactly once, as the last step (by close
\* after a successful code generation, by the drop of the pipeline
\* otherwise); the directory and out.wasm no longer exist whenever that
\* removal succeeded, in particular whenever build returned Ok.
C1_TmpRemovalAttempted ==
    (kind = "Lucetc" /\ Returned) =>
        LET n == Len(steps)
            removals == { i \in 1..n : steps[i].op \in {"close", "drop"} }
        IN  /\ removals = {n}
            /\ (steps[n].res = "removed" => TmpGone)
            /\ (result = [kind |-> "Ok"] => TmpGone)

C1_Witness ==
    /\ kind = "Lucetc" /\ Returned
    /\ steps[Len(steps)] = [op |-> "drop", res |-> "removed"]
    /\ result.kind = "Lucetc"
    /\ TmpGone

\* how CompileError::Execution carries a captured byte stream
Captured(text, bytes) ==
    IF bytes = "\\xFF" THEN text = "\\uFFFD" ELSE text = bytes

\* C2 as stated: whenever the link step of build fails, for any reason, build
\* returns CompileError::Execution and the temporary directory is released.
C2_LinkFailureIsExecution ==
    LinkStepFailed => (result.kind = "Execution" /\ StepOps = <<"link", "drop">>)

\* C2 amended: whenever the link step of build fails, build returns the link
\* error: FileNotFound carrying a missing path when the clang path or an
\* input does not exist (clang is then not spawned), Execution carrying the
\* captured stdout and stderr when clang ran and exited non-zero; in both
\* cases the pipeline is dropped, which attempts the removal of the
\* temporary directory.
C2_LinkFailureKinds ==
    LinkStepFailed =>
        /\ StepOps = <<"link", "drop">>
        /\ \/ /\ result.kind = "FileNotFound"
              /\ ~Spawned
              /\ result.path \in MissingPaths
           \/ /\ result.kind = "Execution"
              /\ Spawned
              /\ MissingPaths = {}
              /\ cmds[1].out.status # 0
              /\ Captured(result.stdout, cmds[1].out.stdout)
              /\ Captured(result.stderr, cmds[1].out.stderr)

C2_Witness ==
    /\ LinkStepFailed
    /\ result = [kind |-> "FileNotFound", path |-> "does_not_exist.o"]
    /\ TmpGone

\* C3: the result of build is the error of the earliest failing step: the
\* link error unchanged; CompileError::Lucetc wrapping the cause when link
\* succeeded and the code generator failed; CompileError::IO only when
\* link and code generation succeeded and the close failed; Ok only when all
\* three succeeded.  A failed removal never replaces an earlier error.
C3_EarliestErrorWins ==
    (kind = "Lucetc" /\ Returned) =>
        LET linkOk == steps[1].res = [kind |-> "Ok"]
            genOk == linkOk /\ steps[2].op = "codegen" /\ steps[2].res = "ok"
            closeOk == genOk /\ steps[3] = [op |-> "close", res |-> "removed"]
        IN  /\ ~linkOk => /\ result = steps[1].res
                          /\ result.kind \in {"FileNotFound", "Execution"}
            /\ (linkOk /\ ~genOk) => result = [kind |-> "Lucetc", e |-> steps[2].res]
            /\ (genOk /\ ~closeOk) => result.kind = "IO"
            /\ closeOk <=> result = [kind |-> "Ok"]

C3_Witness ==
    /\ kind = "Lucetc" /\ Returned /\ Len(steps) = 3
    /\ steps[3] = [op |-> "drop", res |-> "failed"]
    /\ result = [kind |-> "Lucetc", e |-> "wasm validation error"]
    /\ TmpDirPath \in fs

\* C4: within one build the steps run in the order link, code generation,
\* close: the code generator runs only after the link subprocess exited with
\* status zero, the close only after the code generator returned success,
\* and no step runs twice.
C4_StepOrder ==
    kind = "Lucetc" =>
        /\ StepOps \in { <<>>, <<"link">>, <<"link", "drop">>,
                         <<"link", "codegen">>, <<"link", "codegen", "drop">>,
                         <<"link", "codegen", "close">> }
        /\ Len(cmds) <= 1
        /\ (Len(steps) >= 2 /\ steps[2].op = "codegen") =>
               /\ steps[1].res = [kind |-> "Ok"]
               /\ Spawned /\ cmds[1].out.status = 0
        /\ (Len(steps) >= 3 /\ steps[3].op = "close") => steps[2].res = "ok"
        /\ OutShared \in fs => (Len(steps) >= 2 /\ steps[2] = [op |-> "codegen", res |-> "ok"])

C4_Witness ==
    /\ kind = "Lucetc" /\ Returned
    /\ StepOps = <<"link", "codegen", "close">>
    /\ OutShared \in fs

(***************************************************************************)
(* Preconditions of compile and link                                       *)
(***************************************************************************)
\* C5 as stated: when link fails on missing precondition paths, each missing
\* path (the clang path, every non-existent input) appears in the error.
C5_EveryMissingPathReported ==
    (kind = "Link" /\ Returned /\ result.kind = "FileNotFound") =>
        \A p \in MissingPaths : result.path = p

\* C5 amended: when link fails on missing precondition paths, the error
\* carries exactly one path, the first missing one in check order (the
\* clang path, then the inputs in order); later missing paths are not
\* reported.
C5_FirstMissingPathReported ==
    (IsLink /\ Returned /\ result.kind = "FileNotFound") =>
        \E i \in 1..Len(Preconditions) :
            /\ result.path = Preconditions[i]
            /\ Preconditions[i] \notin fs
            /\ \A j \in 1..(i - 1) : Preconditions[j] \in fs

C5_Witness ==
    /\ kind = "Link" /\ Returned
    /\ input = <<"a.c", "does_not_exist.o", "gone.o">>
    /\ "a.c" \in fs
    /\ result = [kind |-> "FileNotFound", path |-> "does_not_exist.o"]

\* C6: compile and link spawn clang only if the resolved clang path and every
\* input exist; if one is missing the call returns FileNotFound carrying a
\* path that does not exist and no output is produced.
C6_NoSpawnOnMissingPath ==
    /\ Spawned => MissingPaths = {}
    /\ (kind \in {"Compile", "Link"} /\ Returned /\ MissingPaths # {}) =>
           /\ result.kind = "FileNotFound"
           /\ result.path \in MissingPaths
           /\ ~Spawned
           /\ OutObject \notin fs /\ OutWasm \notin fs
    /\ (kind = "Link" /\ Returned /\ input = <<"does_not_exist.o">>
            /\ wasm_clang \in fs) =>
           result = [kind |-> "FileNotFound", path |-> "does_not_exist.o"]

C6_Witness ==
    /\ kind = "Link" /\ Returned
    /\ input = <<"does_not_exist.o">>
    /\ wasm_clang \in fs
    /\ result.kind = "FileNotFound"
    /\ ~Spawned

(***************************************************************************)
(* The argv of the clang subprocess                                        *)
(***************************************************************************)
\* C7: the argv link passes to clang is the inputs in order, -o, the output,
\* every cflag in insertion order, then every ldflag in insertion order
\* wrapped once as -Wl,<flag>; nothing is deduplicated.
C7_LinkArgv ==
    (IsLink /\ Spawned) =>
        LET argv == cmds[1].argv
            cfs == CflagsOfCalls(calls)
            base == 1 + Len(input) + 2 + Len(cfs)
        IN  /\ Len(argv) = base + Len(ldflags)
            /\ argv[1] = wasm_clang
            /\ SubSeq(argv, 2, 1 + Len(input)) = input
            /\ SubSeq(argv, 2 + Len(input), 3 + Len(input)) = <<"-o", LinkOutput>>
            /\ SubSeq(argv, 4 + Len(input), base) = cfs
            /\ \A i \in 1..Len(ldflags) : argv[base + i] = "-Wl," \o ldflags[i]
            /\ Len(ldflags) = Len(TableOfCalls(calls))
                                + Len(TableFlags(macos, "DefaultOpts", ""))

C7_Witness ==
    /\ kind = "Link" /\ Spawned /\ ~macos
    /\ calls = << [op |-> "cflag", arg |-> "-nostartfiles"],
                  [op |-> "cflag", arg |-> "-nostartfiles"] >>
    /\ cmds[1].argv = << wasm_clang, "a.c", "b.c", "-o", "ab.wasm",
                         "-nostartfiles", "-nostartfiles", "-Wl,--no-threads" >>

\* C8: the argv compile passes to clang is --target=wasm32-unknown-wasi,
\* --sysroot=<resolved sysroot>, -c, the input, -o, the output, then every
\* cflag in insertion order, include(p) contributing -I<p>; with no cflags
\* it is exactly the first six.
C8_CompileArgv ==
    (kind = "Compile" /\ Spawned) =>
        LET sdk == IF env.WASI_SDK = None THEN "/opt/wasi-sdk" ELSE env.WASI_SDK
            sysroot == IF env.WASI_SYSROOT = None THEN sdk \o "/share/sysroot"
                       ELSE env.WASI_SYSROOT
        IN  cmds[1].argv =
                << wasm_clang, "--target=wasm32-unknown-wasi",
                   "--sysroot=" \o sysroot, "-c", input[1], "-o", OutObject >>
                \o CflagsOfCalls(calls)

C8_Witness ==
    /\ kind = "Compile" /\ Spawned
    /\ env.WASI_SDK = "/sdk"
    /\ cmds[1].argv = << "/sdk/bin/clang", "--target=wasm32-unknown-wasi",
                         "--sysroot=/sdk/share/sysroot", "-c", "a.c", "-o", "a.o",
                         "-Iinc", "-nostartfiles" >>

(***************************************************************************)
(* Link intents                                                            *)
(***************************************************************************)
\* C9: the ldflags of a Link built by Link::new or embedded by Lucetc::new
\* are the translation of DefaultOpts, once, followed by the translations
\* of the intents added since, in call order; on ELF the first is
\* --no-threads, so the first -Wl flag of the argv is -Wl,--no-threads.
C9_DefaultOptsFirst ==
    IsLink =>
        /\ ldflags = TableFlags(macos, "DefaultOpts", "") \o TableOfCalls(calls)
        /\ ~macos => ldflags[1] = "--no-threads"
        /\ (~macos /\ Spawned) =>
               LET argv == cmds[1].argv
                   wls == { i \in 1..Len(argv) : StartsWith(argv[i], "-Wl,") }
               IN  \E i \in wls : /\ argv[i] = "-Wl,--no-threads"
                                  /\ \A j \in wls : i <= j

C9_Witness ==
    /\ kind = "Lucetc" /\ ~macos
    /\ calls = << [op |-> "cflag", arg |-> "-nostartfiles"],
                  [op |-> "link_opt", arg |-> [tag |-> "NoDefaultEntryPoint", sym |-> ""]] >>
    /\ ldflags = <<"--no-threads", "--no-entry">>

\* C10: on both host platforms the translator is total and returns, for
\* every intent, the flags of the table of spec section 4.3; no returned
\* flag carries the -Wl, prefix.
C10_TranslatorTable ==
    IsLink =>
        LET last == LastIntent(calls) IN
        /\ flags_out = TableFlags(macos, last[1], last[2])
        /\ \A i \in 1..Len(flags_out) : ~StartsWith(flags_out[i], "-Wl,")
        /\ \A i \in 1..Len(ldflags) : ~StartsWith(ldflags[i], "-Wl,")

C10_Witness ==
    /\ IsLink /\ ~macos
    /\ calls = << [op |-> "link_opt", arg |-> [tag |-> "NoDefaultEntryPoint", sym |-> ""]],
                  [op |-> "link_opt", arg |-> [tag |-> "AllowUndefined", sym |-> "f"]] >>
    /\ flags_out = <<"-U,_f">>

====
